---- MODULE Spec2Model ----
(***************************************************************************)
(* termilink: formatting notes and appending them to Markdown files in a   *)
(* vault.  Strings are sequences of one-character strings, paths are       *)
(* records of an absolute flag and a sequence of components, the file      *)
(* system is a function from resolved absolute paths to files.             *)
(***************************************************************************)
EXTENDS Integers, Sequences, FiniteSets, TLC

\* Number of file operations (append, create) in one behaviour.
MaxOps == 2
\* Largest absolute value of the limit passed to list_recent_notes.
MaxLimit == 2

\* Optional values: None is the empty sequence, a present value x is <<x>>.
None == <<>>
Some(x) == <<x>>

----------------------------------------------------------------------------
\* Strings

NL == "\n"

\* The double-quote character.
DQ == "dquote"

RECURSIVE Concat(_)
\* Concatenation of a sequence of strings.
Concat(ss) == IF ss = <<>> THEN <<>> ELSE Head(ss) \o Concat(Tail(ss))

RECURSIVE Join(_, _)
\* sep.join(parts)
Join(sep, parts) ==
    IF parts = <<>> THEN <<>>
    ELSE IF Len(parts) = 1 THEN parts[1]
    ELSE parts[1] \o sep \o Join(sep, Tail(parts))

\* s.startswith(p)
StartsWith(s, p) == Len(p) <= Len(s) /\ SubSeq(s, 1, Len(p)) = p

\* s.endswith(p)
EndsWith(s, p) == Len(p) <= Len(s) /\ SubSeq(s, Len(s) - Len(p) + 1, Len(s)) = p

\* p in s
Contains(s, p) == \E i \in 0..(Len(s) - Len(p)) : SubSeq(s, i + 1, i + Len(p)) = p

\* [x for x in parts if x]
NonEmpty(parts) == SelectSeq(parts, LAMBDA x : x # <<>>)

DigitChar == <<"0", "1", "2", "3", "4", "5", "6", "7", "8", "9">>

RECURSIVE Pad(_, _)
\* The decimal digits of n, zero-padded to the given width.
Pad(n, width) ==
    IF width = 0 THEN <<>>
    ELSE Pad(n \div 10, width - 1) \o <<DigitChar[(n % 10) + 1]>>

----------------------------------------------------------------------------
\* datetime

DateTime(y, mo, d, h, mi) == [year |-> y, month |-> mo, day |-> d, hour |-> h, minute |-> mi]

RECURSIVE Strftime(_, _)
\* dt.strftime(fmt), for the directives %Y %m %d %H %M.
Strftime(dt, fmt) ==
    IF fmt = <<>> THEN <<>>
    ELSE IF fmt[1] = "%" /\ Len(fmt) >= 2 THEN
        (CASE fmt[2] = "Y" -> Pad(dt.year, 4)
           [] fmt[2] = "m" -> Pad(dt.month, 2)
           [] fmt[2] = "d" -> Pad(dt.day, 2)
           [] fmt[2] = "H" -> Pad(dt.hour, 2)
           [] fmt[2] = "M" -> Pad(dt.minute, 2)
           [] OTHER -> <<fmt[1], fmt[2]>>)
        \o Strftime(dt, SubSeq(fmt, 3, Len(fmt)))
    ELSE <<fmt[1]>> \o Strftime(dt, Tail(fmt))

\* dt.isoformat(), to the minute.
IsoFormat(dt) ==
    Pad(dt.year, 4) \o <<"-">> \o Pad(dt.month, 2) \o <<"-">> \o Pad(dt.day, 2)
        \o <<"T">> \o Pad(dt.hour, 2) \o <<":">> \o Pad(dt.minute, 2)

FmtYmd == <<"%", "Y", "-", "%", "m", "-", "%", "d">>
FmtHM == <<"%", "H", ":", "%", "M">>

----------------------------------------------------------------------------
\* models.py

NoteFormat == {"plain", "timestamp", "bullet", "task"}

\* " ".join(f"#{tag}" for tag in tags) if tags else ""
TagsStr(tags) ==
    IF tags # <<>> THEN Join(<<" ">>, [i \in 1..Len(tags) |-> <<"#">> \o tags[i]])
    ELSE <<>>

\* timestamp_str of Note.format_content
TimestampStr(note, include_timestamp, timestamp_format) ==
    IF include_timestamp /\ note.timestamp # None
    THEN Strftime(note.timestamp[1], timestamp_format)
    ELSE <<>>

\* format_content with the tags of a bullet joined by " - ", as in timestamp mode.
format_content_DashTags(note, include_timestamp, timestamp_format) ==
    LET timestamp_str == TimestampStr(note, include_timestamp, timestamp_format)
        tags_str == TagsStr(note.tags)
        parts == IF timestamp_str # <<>> THEN <<timestamp_str, note.content>>
                 ELSE <<note.content>>
        listed == Join(<<" ", "-", " ">>,
                       parts \o (IF tags_str # <<>> THEN <<tags_str>> ELSE <<>>))
    IN CASE note.format_type = "plain" ->
              Join(<<" ">>, NonEmpty(<<timestamp_str, note.content, tags_str>>))
         [] note.format_type = "timestamp" ->
              IF timestamp_str # <<>>
              THEN Join(<<" ", "-", " ">>,
                        <<(<<"*", "*">> \o timestamp_str \o <<"*", "*">>), note.content>>
                            \o (IF tags_str # <<>> THEN <<tags_str>> ELSE <<>>))
              ELSE note.content
         [] note.format_type = "bullet" -> <<"-", " ">> \o listed
         [] note.format_type = "task" -> <<"-", " ", "[", " ", "]", " ">> \o listed
         [] OTHER -> note.content

\* Note.format_content
format_content(note, include_timestamp, timestamp_format) ==
    LET timestamp_str == TimestampStr(note, include_timestamp, timestamp_format)
        tags_str == TagsStr(note.tags)
        parts == IF timestamp_str # <<>> THEN <<timestamp_str, note.content>>
                 ELSE <<note.content>>
    IN CASE note.format_type = "plain" ->
              Join(<<" ">>, NonEmpty(<<timestamp_str, note.content, tags_str>>))
         [] note.format_type = "timestamp" ->
              IF timestamp_str # <<>>
              THEN Join(<<" ", "-", " ">>,
                        <<(<<"*", "*">> \o timestamp_str \o <<"*", "*">>), note.content>>
                            \o (IF tags_str # <<>> THEN <<tags_str>> ELSE <<>>))
              ELSE note.content
         [] note.format_type = "bullet" ->
              <<"-", " ">> \o Join(<<" ", "-", " ">>, parts)
                  \o (IF tags_str # <<>> THEN <<" ">> \o tags_str ELSE <<>>)
         [] note.format_type = "task" ->
              <<"-", " ", "[", " ", "]", " ">> \o Join(<<" ", "-", " ">>, parts)
                  \o (IF tags_str # <<>> THEN <<" ">> \o tags_str ELSE <<>>)
         [] OTHER -> note.content

----------------------------------------------------------------------------
\* pathlib

Path(abs, parts) == [abs |-> abs, parts |-> parts]

RECURSIVE Split(_, _)
\* s.split(sep) for a one-character separator.
Split(s, sep) ==
    IF \A i \in 1..Len(s) : s[i] # sep THEN <<s>>
    ELSE LET i == CHOOSE j \in 1..Len(s) :
                      s[j] = sep /\ \A k \in 1..(j - 1) : s[k] # sep
         IN <<SubSeq(s, 1, i - 1)>> \o Split(SubSeq(s, i + 1, Len(s)), sep)

\* Path(s): the components of s, without empty and "." components.
ParsePath(s) ==
    Path(s # <<>> /\ s[1] = "/",
         SelectSeq(Split(s, "/"), LAMBDA c : c # <<>> /\ c # <<".">>))

\* a / b
Div(a, b) == IF b.abs THEN b ELSE Path(a.abs, a.parts \o b.parts)

\* p.name
Name(p) == IF p.parts = <<>> THEN <<>> ELSE p.parts[Len(p.parts)]

RECURSIVE Normalize(_, _)
\* The components left after each ".." removes the component before it.
Normalize(done, rest) ==
    IF rest = <<>> THEN done
    ELSE IF Head(rest) = <<".", ".">>
         THEN Normalize(IF done = <<>> THEN <<>> ELSE SubSeq(done, 1, Len(done) - 1),
                        Tail(rest))
         ELSE Normalize(Append(done, Head(rest)), Tail(rest))

\* p.resolve(), for an absolute path in a file system without symbolic links.
Resolve(p) == Path(p.abs, Normalize(<<>>, p.parts))

\* str(p)
Str(p) ==
    IF p.parts = <<>> THEN (IF p.abs THEN <<"/">> ELSE <<".">>)
    ELSE (IF p.abs THEN <<"/">> ELSE <<>>) \o Join(<<"/">>, p.parts)

----------------------------------------------------------------------------
\* State

VARIABLES
    config,   \* the Config object of the running command
    fs,       \* the files: resolved absolute path components -> [content, mtime]
    now,      \* the wall clock: index of its current reading in Clock
    nops,     \* number of file operations performed
    last,     \* the last operation: its arguments, what it read and returned
    hist,     \* per file, the writes made to it: <<[op, pre, frag, post], ...>>
    run       \* the local state of the commands and invocations in progress

vars == <<config, fs, now, nops, last, hist, run>>

\* The readings of the wall clock the commands observe: two successive days.
Clock == <<DateTime(2024, 1, 15, 14, 30), DateTime(2024, 1, 16, 9, 5)>>
ClockAt(t) == Clock[t]

MdSuffix == <<".", "m", "d">>

VaultPath == Path(TRUE, << <<"v">> >>)
DailyNotesPath == <<"D", "N">>

Configs ==
    [vault_path : {VaultPath},
     daily_notes_path : {DailyNotesPath},
     daily_note_format : {FmtYmd},
     default_format : {"timestamp"},
     include_timestamp : BOOLEAN,
     timestamp_format : {FmtHM},
     append_newline : BOOLEAN]

\* A file of the vault that is no note.
Attachment == <<"r">>

\* A note in a directory next to the vault whose name starts with the vault's.
Outside == << <<"v", "2">>, <<"o">> \o MdSuffix >>

InitFiles ==
    ((VaultPath.parts \o <<Attachment>>) :> [content |-> <<"z", NL>>, mtime |-> 1])
        @@ (Outside :> [content |-> <<"z", NL>>, mtime |-> 1])

Init ==
    /\ config \in Configs
    /\ fs = InitFiles
    /\ now = 1
    /\ nops = 0
    /\ last = [op |-> "init"]
    /\ hist = <<>>
    /\ run = <<>>

----------------------------------------------------------------------------
\* note_handler.py

\* get_daily_note_path(config, date); clock is the reading datetime.now() returns.
get_daily_note_path(cfg, date, clock) ==
    LET d == IF date = None THEN clock ELSE date[1]
        filename == Strftime(d, cfg.daily_note_format) \o MdSuffix
        daily_notes_dir == Div(cfg.vault_path, ParsePath(cfg.daily_notes_path))
    IN Div(daily_notes_dir, ParsePath(filename))

\* The key of path p in fs: the components of the file the system opens for p.
FileKey(p) == Resolve(p).parts

\* file_path.exists()
Exists(files, p) == FileKey(p) \in DOMAIN files

\* read_note_file that reads every file as empty.
read_note_file_Empty(files, p) == <<>>

\* read_note_file
read_note_file(files, p) == IF ~Exists(files, p) THEN <<>> ELSE files[FileKey(p)].content

\* write_note_file: the files after content is written to p at clock tick t.
write_note_file(files, p, content, t) ==
    (FileKey(p) :> [content |-> content, mtime |-> t]) @@ files

\* append_to_note, lines 80-86: the target before the containment check.
ChooseTarget(cfg, note, target_path, clock) ==
    IF target_path = None THEN
        IF note.use_daily_note THEN get_daily_note_path(cfg, None, clock)
        ELSE IF note.target_file # None THEN Div(cfg.vault_path, note.target_file[1])
        ELSE get_daily_note_path(cfg, None, clock)
    ELSE target_path[1]

\* append_to_note, line 89: the test that the target is within the vault.
WithinVault(cfg, p) == StartsWith(Str(Resolve(p)), Str(Resolve(cfg.vault_path)))

\* append_to_note, lines 88-90: the target after the containment check.
ResolveTarget(cfg, note, target_path, clock) ==
    LET p == ChooseTarget(cfg, note, target_path, clock)
    IN IF ~WithinVault(cfg, p) THEN Div(cfg.vault_path, ParsePath(Name(p))) ELSE p

\* append_to_note, lines 109-111: the frontmatter of a new daily note.
DailyFrontmatter(note) ==
    <<"-", "-", "-", NL>> \o <<"d", "a", "t", "e", ":", " ">>
        \o Strftime(note.timestamp[1], FmtYmd) \o <<NL>> \o <<"-", "-", "-", NL, NL>>

\* BuildContent without the newline that append_newline asks for.
BuildContent_NoNewline(cfg, note, existing_content, formatted_note) ==
    IF existing_content # <<>> THEN existing_content \o formatted_note \o <<NL>>
    ELSE IF note.use_daily_note /\ note.timestamp # None
         THEN DailyFrontmatter(note) \o formatted_note \o <<NL>>
         ELSE formatted_note \o <<NL>>

\* append_to_note, lines 101-114: the new content of the file.
BuildContent(cfg, note, existing_content, formatted_note) ==
    IF existing_content # <<>> THEN
        IF cfg.append_newline
        THEN existing_content \o <<NL>> \o formatted_note \o <<NL>>
        ELSE existing_content \o formatted_note \o <<NL>>
    ELSE
        IF note.use_daily_note /\ note.timestamp # None
        THEN DailyFrontmatter(note) \o formatted_note \o <<NL>>
        ELSE formatted_note \o <<NL>>

\* One more write in the history of the file with key k.
Record(h, k, w) ==
    IF k \in DOMAIN h THEN [h EXCEPT ![k] = Append(@, w)] ELSE (k :> <<w>>) @@ h

Contents == {<<"a">>}
TagLists == {<< <<"w">> >>}
FileFormats == {"plain", "bullet"}

\* Target files of a note: in the vault, in a sibling directory whose name
\* starts with the vault's (reached by a traversal), an absolute path.
TargetFiles ==
    {Path(FALSE, << <<"x">> \o MdSuffix >>),
     Path(FALSE, << <<".", ".">>, <<"v", "2">>, <<"x">> \o MdSuffix >>),
     Path(TRUE, << <<"e">>, <<"x">> \o MdSuffix >>)}

\* The timestamps a note can carry: none, or the time the first command ran
\* (the note's construction time then, an explicit earlier time afterwards).
Timestamps == {None, Some(ClockAt(1))}

Notes ==
    [content : Contents,
     format_type : FileFormats,
     tags : TagLists,
     timestamp : Timestamps,
     target_file : {None} \cup {Some(f) : f \in TargetFiles},
     use_daily_note : BOOLEAN]

\* append_to_note(config, note, target_path)
AppendStep(note, target_path) ==
    LET p == ResolveTarget(config, note, target_path, ClockAt(now))
        existing_content == read_note_file(fs, p)
        formatted_note == format_content(note, config.include_timestamp,
                                         config.timestamp_format)
        new_content == BuildContent(config, note, existing_content, formatted_note)
    IN /\ fs' = write_note_file(fs, p, new_content, now)
       /\ hist' = Record(hist, FileKey(p),
                         [op |-> "append", pre |-> existing_content,
                          frag |-> formatted_note, post |-> new_content])
       /\ last' = [op |-> "append", note |-> note, target_path |-> target_path,
                   path |-> p, pre |-> existing_content, frag |-> formatted_note,
                   at |-> now]

append_to_note ==
    /\ nops < MaxOps
    /\ \E note \in Notes : AppendStep(note, None)
    /\ nops' = nops + 1
    /\ UNCHANGED <<config, now, run>>

\* NormalizeFilename that appends the suffix to every filename.
NormalizeFilename_Always(filename) == filename \o MdSuffix

\* create_note_file, lines 139-140: the filename with its suffix.
NormalizeFilename(filename) ==
    IF ~EndsWith(filename, MdSuffix) THEN filename \o MdSuffix ELSE filename

\* create_note_file, lines 142-145: the path of the new file.
CreateTarget(cfg, filename, subdirectory) ==
    IF subdirectory # None /\ subdirectory[1] # <<>>
    THEN Div(Div(cfg.vault_path, ParsePath(subdirectory[1])),
             ParsePath(NormalizeFilename(filename)))
    ELSE Div(cfg.vault_path, ParsePath(NormalizeFilename(filename)))

\* create_note_file, lines 150-151: the content of the new file.
CreateContent(content, clock) ==
    <<"-", "-", "-", NL>> \o <<"c", "r", "e", "a", "t", "e", "d", ":", " ">>
        \o IsoFormat(clock) \o <<NL>> \o <<"-", "-", "-", NL, NL>> \o content \o <<NL>>

Filenames == {<<"x">>, <<"x">> \o MdSuffix}
Subdirectories == {None, Some(<<>>), Some(<<"s">>)}
CreateContents == {<<"c">>}

\* create_note_file(config, filename, content, subdirectory)
CreateStep(filename, content, subdirectory) ==
    LET p == CreateTarget(config, filename, subdirectory)
        pre == read_note_file(fs, p)
        full_content == CreateContent(content, ClockAt(now))
    IN /\ fs' = write_note_file(fs, p, full_content, now)
       /\ hist' = Record(hist, FileKey(p),
                         [op |-> "create", pre |-> pre, frag |-> content,
                          post |-> full_content])
       /\ last' = [op |-> "create", filename |-> filename, content |-> content,
                   subdirectory |-> subdirectory, path |-> p, pre |-> pre, at |-> now]

create_note_file ==
    /\ nops < MaxOps
    /\ \E filename \in Filenames, content \in CreateContents,
          subdirectory \in Subdirectories :
            CreateStep(filename, content, subdirectory)
    /\ nops' = nops + 1
    /\ UNCHANGED <<config, now, run>>

\* The files config.vault_path.rglob("*.md") yields, as a set of keys.
MdFiles(cfg, files) ==
    {k \in DOMAIN files :
        /\ Len(k) > Len(FileKey(cfg.vault_path))
        /\ SubSeq(k, 1, Len(FileKey(cfg.vault_path))) = FileKey(cfg.vault_path)
        /\ EndsWith(k[Len(k)], MdSuffix)}

\* The lists sort(key=mtime, reverse=True) can return: rglob enumerates in any
\* order and the sort is stable, so files of equal mtime come in any order.
SortedByMtime(files, S) ==
    {s \in [1..Cardinality(S) -> S] :
        /\ \A i, j \in 1..Cardinality(S) : i # j => s[i] # s[j]
        /\ \A i, j \in 1..Cardinality(S) :
              i < j => files[s[i]].mtime >= files[s[j]].mtime}

\* md_files[:limit]
SliceTo(s, limit) ==
    IF limit >= 0 THEN SubSeq(s, 1, IF limit < Len(s) THEN limit ELSE Len(s))
    ELSE SubSeq(s, 1, Len(s) + limit)

\* list_recent_notes(config, limit)
list_recent_notes ==
    /\ \E limit \in (0 - MaxLimit)..MaxLimit :
       \E md_files \in SortedByMtime(fs, MdFiles(config, fs)) :
          last' = [op |-> "list", limit |-> limit, found |-> Len(md_files),
                   result |-> SliceTo(md_files, limit)]
    /\ UNCHANGED <<config, fs, now, nops, hist, run>>

FormatContents == {<<>>, <<"a">>, <<"a", " ", "b">>}
FormatTagLists == {<<>>, << <<"w">> >>, << <<"i">>, <<"w">> >>}
FormatTimestamps == {None} \cup {Some(Clock[t]) : t \in 1..Len(Clock)}
TimestampFormats == {FmtHM, <<>>}

FormatNotes ==
    [content : FormatContents,
     format_type : NoteFormat,
     tags : FormatTagLists,
     timestamp : FormatTimestamps,
     target_file : {None},
     use_daily_note : {TRUE}]

\* A call of note.format_content(include_timestamp, timestamp_format).
FormatNote ==
    /\ \E note \in FormatNotes, include_timestamp \in BOOLEAN,
          timestamp_format \in TimestampFormats :
            last' = [op |-> "format", note |-> note,
                     include_timestamp |-> include_timestamp,
                     timestamp_format |-> timestamp_format,
                     result |-> format_content(note, include_timestamp,
                                               timestamp_format)]
    /\ UNCHANGED <<config, fs, now, nops, hist, run>>

\* The clock moves on between two operations.
Tick ==
    /\ now < Len(Clock)
    /\ now' = now + 1
    /\ UNCHANGED <<config, fs, nops, last, hist, run>>

Next == append_to_note \/ create_note_file \/ Tick

Spec == Init /\ [][Next]_vars

\* The listing, over the vaults that creating files in it produces.
NextList == create_note_file \/ Tick \/ list_recent_notes

SpecList == Init /\ [][NextList]_vars

\* The formatter alone, on every note of FormatNotes.
SpecFormat == Init /\ [][FormatNote]_vars

----------------------------------------------------------------------------
\* models.py: Config

\* Path.is_dir(): the directories are the root and the ancestors of the files.
IsDir(files, p) ==
    LET k == FileKey(p)
    IN /\ k \notin DOMAIN files
       /\ \/ k = <<>>
          \/ \E f \in DOMAIN files : Len(f) > Len(k) /\ SubSeq(f, 1, Len(k)) = k

\* Path.exists()
PathExists(files, p) == Exists(files, p) \/ IsDir(files, p)

\* The outcome of a call: a returned value or a raised error.
Ok(v) == [ok |-> TRUE, value |-> Some(v), error |-> "none"]
Err(e) == [ok |-> FALSE, value |-> None, error |-> e]

\* validate_vault_path without the is_dir test.
validate_vault_path_NoDirTest(files, v) ==
    IF ~PathExists(files, v) THEN Err("Vault path does not exist")
    ELSE Ok(Resolve(v))

\* Config.validate_vault_path
validate_vault_path(files, v) ==
    IF ~PathExists(files, v) THEN Err("Vault path does not exist")
    ELSE IF ~IsDir(files, v) THEN Err("Vault path is not a directory")
    ELSE Ok(Resolve(v))

FieldNames ==
    {"vault_path", "daily_notes_path", "daily_note_format", "default_format",
     "include_timestamp", "timestamp_format", "append_newline"}

\* The defaults of the fields of Config.
ConfigDefaults ==
    [daily_notes_path |-> DailyNotesPath,
     daily_note_format |-> FmtYmd,
     default_format |-> "timestamp",
     include_timestamp |-> TRUE,
     timestamp_format |-> FmtHM,
     append_newline |-> TRUE]

\* Config(**data): data maps some field names to values, vault_path to a Path.
NewConfig(files, data) ==
    IF "vault_path" \notin DOMAIN data THEN Err("Field required")
    ELSE LET v == validate_vault_path(files, data["vault_path"])
         IN IF ~v.ok THEN Err(v.error)
            ELSE Ok([f \in FieldNames |->
                        IF f = "vault_path" THEN v.value[1]
                        ELSE IF f \in DOMAIN data THEN data[f]
                        ELSE ConfigDefaults[f]])

----------------------------------------------------------------------------
\* config.py

\* The field names as they are written in a configuration file.
FieldChars ==
    [vault_path |-> <<"v", "a", "u", "l", "t", "_", "p", "a", "t", "h">>,
     daily_notes_path |-> <<"d", "a", "i", "l", "y", "_", "n", "o", "t", "e", "s", "_", "p", "a", "t", "h">>,
     daily_note_format |-> <<"d", "a", "i", "l", "y", "_", "n", "o", "t", "e", "_", "f", "o", "r", "m", "a", "t">>,
     default_format |-> <<"d", "e", "f", "a", "u", "l", "t", "_", "f", "o", "r", "m", "a", "t">>,
     include_timestamp |-> <<"i", "n", "c", "l", "u", "d", "e", "_", "t", "i", "m", "e", "s", "t", "a", "m", "p">>,
     timestamp_format |-> <<"t", "i", "m", "e", "s", "t", "a", "m", "p", "_", "f", "o", "r", "m", "a", "t">>,
     append_newline |-> <<"a", "p", "p", "e", "n", "d", "_", "n", "e", "w", "l", "i", "n", "e">>]

\* The fields in the order model_dump lists them.
FieldOrder ==
    <<"vault_path", "daily_notes_path", "daily_note_format", "default_format",
      "include_timestamp", "timestamp_format", "append_newline">>

BoolFields == {"include_timestamp", "append_newline"}

\* A value of a configuration document: a string or a boolean.
StrVal(x) == [t |-> "str", s |-> x, b |-> FALSE]
BoolVal(x) == [t |-> "bool", s |-> <<>>, b |-> x]

RECURSIVE FindFrom(_, _, _)
\* The index of the first occurrence of p in s at or after i, 0 if none.
FindFrom(s, p, i) ==
    IF i + Len(p) - 1 > Len(s) THEN 0
    ELSE IF SubSeq(s, i, i + Len(p) - 1) = p THEN i
    ELSE FindFrom(s, p, i + 1)

\* s.find(p) + 1: the index of the first occurrence of p in s, 0 if none.
Find(s, p) == FindFrom(s, p, 1)

RECURSIVE SplitOn(_, _)
\* s.split(sep)
SplitOn(s, sep) ==
    LET i == Find(s, sep)
    IN IF i = 0 THEN <<s>>
       ELSE <<SubSeq(s, 1, i - 1)>> \o SplitOn(SubSeq(s, i + Len(sep), Len(s)), sep)

\* config.model_dump(mode="json") with vault_path as str(config.vault_path),
\* config.py lines 78-79.
DumpConfig(cfg) ==
    [f \in FieldNames |->
        IF f = "vault_path" THEN StrVal(Str(cfg.vault_path))
        ELSE IF f \in BoolFields THEN BoolVal(cfg[f])
        ELSE IF f = "default_format" THEN StrVal(<<"t", "i", "m", "e", "s", "t", "a", "m", "p">>)
        ELSE StrVal(cfg[f])]

TrueChars == <<"t", "r", "u", "e">>
FalseChars == <<"f", "a", "l", "s", "e">>

\* The first characters a plain YAML scalar cannot start with.
YamlIndicators == {"%", "'", DQ, "!", "&", "*", "-", "?", "{", "[", "#", "@", "|", ">"}

\* A string YAML writes in quotes: written plain it would not read back as
\* the same string.
YamlNeedsQuote(x) ==
    \/ x = <<>>
    \/ x[1] \in YamlIndicators
    \/ x \in {TrueChars, FalseChars, <<"n", "u", "l", "l">>}
    \/ Contains(x, <<":", " ">>)

\* The text of a scalar in yaml.safe_dump.
YamlScalar(v) ==
    IF v.t = "bool" THEN (IF v.b THEN TrueChars ELSE FalseChars)
    ELSE IF YamlNeedsQuote(v.s) THEN <<"'">> \o v.s \o <<"'">>
    ELSE v.s

\* yaml.safe_dump(config_dict, default_flow_style=False, sort_keys=False)
YamlDump(doc) ==
    Concat([i \in 1..Len(FieldOrder) |->
               FieldChars[FieldOrder[i]] \o <<":", " ">>
                   \o YamlScalar(doc[FieldOrder[i]]) \o <<NL>>])

\* The value a YAML or JSON scalar text denotes, for strings and booleans.
ParseScalar(x, quote) ==
    IF Len(x) >= 2 /\ x[1] = quote /\ x[Len(x)] = quote
    THEN StrVal(SubSeq(x, 2, Len(x) - 1))
    ELSE IF x = TrueChars THEN BoolVal(TRUE)
    ELSE IF x = FalseChars THEN BoolVal(FALSE)
    ELSE StrVal(x)

\* The mapping a sequence of "key: value" entries denotes.
PairsToDoc(entries, quote, keyquote) ==
    LET key(e) == IF keyquote THEN SubSeq(e, 2, Find(e, <<":", " ">>) - 2)
                  ELSE SubSeq(e, 1, Find(e, <<":", " ">>) - 1)
        val(e) == ParseScalar(SubSeq(e, Find(e, <<":", " ">>) + 2, Len(e)), quote)
        keys == {key(entries[i]) : i \in 1..Len(entries)}
    IN [k \in keys |-> val(entries[CHOOSE i \in 1..Len(entries) : key(entries[i]) = k])]

\* yaml.safe_load of a block mapping of scalars.
YamlLoad(text) ==
    LET lines == NonEmpty(SplitOn(text, <<NL>>))
    IN IF \E i \in 1..Len(lines) : Find(lines[i], <<":", " ">>) = 0
       THEN Err("YAMLError")
       ELSE Ok(PairsToDoc(lines, "'", FALSE))

\* json.load of a flat object of strings and booleans.
JsonLoad(text) ==
    IF Len(text) < 2 \/ text[1] # "{" \/ text[Len(text)] # "}"
    THEN Err("JSONDecodeError")
    ELSE LET entries == NonEmpty(SplitOn(SubSeq(text, 2, Len(text) - 1), <<",", " ">>))
         IN IF \E i \in 1..Len(entries) :
                   entries[i][1] # DQ \/ Find(entries[i], <<DQ, ":", " ">>) = 0
            THEN Err("JSONDecodeError")
            ELSE Ok(PairsToDoc(entries, DQ, TRUE))

\* p.suffix
Suffix(p) ==
    LET n == Name(p)
        dots == {i \in 2..Len(n) : n[i] = "."}
    IN IF dots = {} THEN <<>>
       ELSE SubSeq(n, CHOOSE i \in dots : \A j \in dots : j <= i, Len(n))

YamlSuffixes == {<<".", "y", "a", "m", "l">>, <<".", "y", "m", "l">>}
JsonSuffix == <<".", "j", "s", "o", "n">>

HomeDir == Path(TRUE, << <<"h">> >>)
CwdDir == Path(TRUE, << <<"w">> >>)
DefaultConfigName == <<".", "t", "e", "r", "m", "i", "l", "i", "n", "k", ".", "y", "a", "m", "l">>

\* CONFIG_LOCATIONS
CONFIG_LOCATIONS ==
    <<Div(HomeDir, Path(FALSE, <<DefaultConfigName>>)),
      Div(HomeDir, Path(FALSE, << <<".", "c", "o", "n", "f", "i", "g">>,
                                  <<"t", "e", "r", "m", "i", "l", "i", "n", "k">>,
                                  <<"c", "o", "n", "f", "i", "g", ".", "y", "a", "m", "l">> >>)),
      Div(CwdDir, Path(FALSE, <<DefaultConfigName>>))>>

\* find_config_file
find_config_file(files) ==
    IF \E i \in 1..Len(CONFIG_LOCATIONS) : PathExists(files, CONFIG_LOCATIONS[i])
    THEN Some(CONFIG_LOCATIONS[CHOOSE i \in 1..Len(CONFIG_LOCATIONS) :
                  /\ PathExists(files, CONFIG_LOCATIONS[i])
                  /\ \A j \in 1..(i - 1) : ~PathExists(files, CONFIG_LOCATIONS[j])])
    ELSE None

\* The keyword arguments Config(**data) receives from a loaded document:
\* the fields of Config that the document names, vault_path made a Path.
ConfigData(doc) ==
    [f \in {g \in FieldNames : FieldChars[g] \in DOMAIN doc} |->
        IF f = "vault_path" THEN ParsePath(doc[FieldChars[f]].s)
        ELSE IF f \in BoolFields THEN doc[FieldChars[f]].b
        ELSE IF f = "default_format" THEN "timestamp"
        ELSE doc[FieldChars[f]].s]

\* A document whose values have the types of the fields they name.
WellTyped(doc) ==
    \A f \in FieldNames :
        FieldChars[f] \in DOMAIN doc =>
            /\ doc[FieldChars[f]].t = (IF f \in BoolFields THEN "bool" ELSE "str")
            /\ f = "default_format" =>
                   doc[FieldChars[f]].s = <<"t", "i", "m", "e", "s", "t", "a", "m", "p">>

\* load_config, lines 51-57: the document read from config_path.
ParseConfigFile(files, config_path) ==
    IF Suffix(config_path) \in YamlSuffixes THEN YamlLoad(read_note_file(files, config_path))
    ELSE IF Suffix(config_path) = JsonSuffix
    THEN JsonLoad(read_note_file(files, config_path))
    ELSE Err("Unsupported config file format")

\* load_config(config_path): Ok(None) stands for the return value None.
load_config(files, config_path) ==
    LET path == IF config_path = None THEN find_config_file(files) ELSE config_path
    IN IF path = None THEN [ok |-> TRUE, value |-> None, error |-> "none"]
       ELSE IF ~PathExists(files, path[1]) THEN Err("FileNotFoundError")
       ELSE LET doc == ParseConfigFile(files, path[1])
            IN IF ~doc.ok THEN Err(doc.error)
               ELSE IF ~WellTyped(doc.value[1]) THEN Err("ValidationError")
               ELSE NewConfig(files, ConfigData(doc.value[1]))

\* The path save_config writes: config_path, or the default location.
SavePath(config_path) ==
    IF config_path = None THEN Div(HomeDir, Path(FALSE, <<DefaultConfigName>>))
    ELSE config_path[1]

\* save_config(config, config_path): the files afterwards.
save_config(files, cfg, config_path, t) ==
    write_note_file(files, SavePath(config_path), YamlDump(DumpConfig(cfg)), t)

\* A configuration file written by hand in JSON.
JsonConfigPath == Div(HomeDir, Path(FALSE, << <<"j">> \o JsonSuffix >>))
JsonConfigText == <<"{", DQ, "v", "a", "u", "l", "t", "_", "p", "a", "t", "h", DQ, ":", " ", DQ, "/", "v", DQ, ",", " ", DQ, "a", "p", "p", "e", "n", "d", "_", "n", "e", "w", "l", "i", "n", "e", DQ, ":", " ", "f", "a", "l", "s", "e", "}">>

\* The paths configurations are saved to and loaded from.
ConfigPaths ==
    {Div(HomeDir, Path(FALSE, << <<"c", ".", "y", "a", "m", "l">> >>)),
     Div(HomeDir, Path(FALSE, << <<"c", ".", "y", "m", "l">> >>)),
     Div(HomeDir, Path(FALSE, << <<"c">> \o JsonSuffix >>))}

\* create_default_config
create_default_config(files, vault_path) == NewConfig(files, [vault_path |-> vault_path])

\* Vault paths given to Config: a directory, a file, a path that does not
\* exist, a directory named through "..".
VaultCandidates ==
    {VaultPath,
     Path(TRUE, << <<"v">>, Attachment >>),
     Path(TRUE, << <<"n">> >>),
     Path(TRUE, << <<"v">>, <<".", ".">>, <<"v", "2">> >>)}

\* Config(vault_path=v), as create_default_config makes it.
ConstructConfig ==
    /\ \E v \in VaultCandidates :
          last' = [op |-> "construct", vault_path |-> v,
                   result |-> create_default_config(fs, v)]
    /\ UNCHANGED <<config, fs, now, nops, hist, run>>

\* save_config(config, config_path) for a path of ConfigPaths; run keeps the
\* Config saved at each path.
SaveConfig ==
    /\ \E path \in ConfigPaths :
          /\ fs' = save_config(fs, config, Some(path), now)
          /\ run' = (FileKey(path) :> config) @@ run
          /\ last' = [op |-> "save", path |-> path]
    /\ UNCHANGED <<config, now, nops, hist>>

\* load_config(config_path), also without a path and for the JSON file.
LoadConfig ==
    /\ \E path \in {None} \cup {Some(q) : q \in ConfigPaths \cup {JsonConfigPath}} :
          last' = [op |-> "load", path |-> path, result |-> load_config(fs, path)]
    /\ UNCHANGED <<config, fs, now, nops, hist, run>>

----------------------------------------------------------------------------
\* cli.py: config init, config set-vault

DailyNotesPaths == {DailyNotesPath, <<"J">>}

\* config_init(vault_path, daily_notes_path, force): the outcome, "saved"
\* when the command succeeds, and the Config it saves.
ConfigInitOutcome(files, vault_path, daily_notes_path, force) ==
    LET vault == Resolve(vault_path)
        existing_config == load_config(files, None)
        created == create_default_config(files, vault)
    IN IF ~PathExists(files, vault) THEN [status |-> "exit", saved |-> None]
       ELSE IF ~IsDir(files, vault) THEN [status |-> "exit", saved |-> None]
       ELSE IF ~existing_config.ok THEN [status |-> "error", saved |-> None]
       ELSE IF existing_config.value # None /\ ~force
       THEN [status |-> "exit", saved |-> None]
       ELSE IF ~created.ok THEN [status |-> "error", saved |-> None]
       ELSE [status |-> "saved",
             saved |-> Some([created.value[1] EXCEPT
                                !["daily_notes_path"] = daily_notes_path])]

config_init ==
    /\ \E vault_path \in VaultCandidates, daily_notes_path \in DailyNotesPaths,
          force \in BOOLEAN :
          LET out == ConfigInitOutcome(fs, vault_path, daily_notes_path, force)
          IN /\ fs' = IF out.status = "saved"
                      THEN save_config(fs, out.saved[1], None, now) ELSE fs
             /\ last' = [op |-> "config_init", vault_path |-> vault_path,
                         force |-> force, status |-> out.status]
    /\ UNCHANGED <<config, now, nops, hist, run>>

\* config_set_vault(vault_path): the outcome and the Config it saves.
ConfigSetVaultOutcome(files, vault_path) ==
    LET cfg == load_config(files, None)
        vault == Resolve(vault_path)
    IN IF ~cfg.ok THEN [status |-> "error", saved |-> None]
       ELSE IF cfg.value = None THEN [status |-> "exit", saved |-> None]
       ELSE IF ~PathExists(files, vault) THEN [status |-> "exit", saved |-> None]
       ELSE [status |-> "saved",
             saved |-> Some([cfg.value[1] EXCEPT !["vault_path"] = vault])]

config_set_vault ==
    /\ \E vault_path \in VaultCandidates :
          LET out == ConfigSetVaultOutcome(fs, vault_path)
          IN /\ fs' = IF out.status = "saved"
                      THEN save_config(fs, out.saved[1], None, now) ELSE fs
             /\ last' = [op |-> "config_set_vault", vault_path |-> vault_path,
                         status |-> out.status]
    /\ UNCHANGED <<config, now, nops, hist, run>>

\* The files at the start: those of Init and a configuration in JSON.
InitConfig ==
    /\ config \in Configs
    /\ fs = (FileKey(JsonConfigPath) :> [content |-> JsonConfigText, mtime |-> 1])
                @@ InitFiles
    /\ now = 1
    /\ nops = 0
    /\ last = [op |-> "init"]
    /\ hist = <<>>
    /\ run = <<>>

NextConfig == ConstructConfig \/ SaveConfig \/ LoadConfig

\* Configurations: constructing, saving and loading them.
SpecConfig == InitConfig /\ [][NextConfig]_vars

NextVault == config_init \/ config_set_vault

\* The persisted configuration under the config commands.
SpecVault == InitConfig /\ [][NextVault]_vars

----------------------------------------------------------------------------
\* note_handler.py: two invocations of append_to_note running concurrently

\* The invocations; each is a process of its own that shares only the files.
Invocations == {"first", "second"}

\* The content each invocation appends.
InvocationContent(i) == IF i = "first" THEN <<"p">> ELSE <<"q">>

\* The note file x.md of the vault.
VaultNote == Path(FALSE, << <<"x">> \o MdSuffix >>)

InvocationNotes(i) ==
    [content : {InvocationContent(i)},
     format_type : FileFormats,
     tags : TagLists,
     timestamp : Timestamps,
     target_file : {None, Some(VaultNote)},
     use_daily_note : BOOLEAN]

\* An invocation that has not started.
Idle ==
    [pc |-> "idle", note |-> None, path |-> None, existing_content |-> <<>>,
     read_at |-> 0, written_at |-> 0]

\* append_to_note, line 104 and 106: the content the new content starts with,
\* read again from the file when the new content is built.
ExistingContent_Reread(files, p, existing_content) == read_note_file(files, p)

\* append_to_note, lines 104 and 106: the content the new content starts
\* with is the one line 93 read, whatever the file holds by now.
ExistingContent(files, p, existing_content) == existing_content

\* append_to_note, lines 80-93: the target is chosen and the file read.
AppendRead(i) ==
    /\ run[i].pc = "idle"
    /\ \E note \in InvocationNotes(i) :
          LET p == ResolveTarget(config, note, None, ClockAt(now))
          IN run' = [run EXCEPT ![i] =
                        [pc |-> "read", note |-> Some(note), path |-> Some(p),
                         existing_content |-> read_note_file(fs, p),
                         read_at |-> nops + 1, written_at |-> 0]]
    /\ nops' = nops + 1
    /\ UNCHANGED <<config, fs, now, last, hist>>

\* append_to_note, lines 96-117: the note is formatted, the new content built
\* from the content read earlier, and the file written.
AppendWrite(i) ==
    /\ run[i].pc = "read"
    /\ LET note == run[i].note[1]
           p == run[i].path[1]
           existing_content == ExistingContent(fs, p, run[i].existing_content)
           formatted_note == format_content(note, config.include_timestamp,
                                            config.timestamp_format)
           new_content == BuildContent(config, note, existing_content,
                                       formatted_note)
       IN /\ fs' = write_note_file(fs, p, new_content, now)
          /\ hist' = Record(hist, FileKey(p),
                            [op |-> "append", pre |-> existing_content,
                             frag |-> formatted_note, post |-> new_content])
          /\ last' = [op |-> "append", note |-> note, target_path |-> None,
                      path |-> p, pre |-> existing_content,
                      frag |-> formatted_note, at |-> now]
    /\ run' = [run EXCEPT ![i].pc = "done", ![i].written_at = nops + 1]
    /\ nops' = nops + 1
    /\ UNCHANGED <<config, now>>

\* The vault holds the note x.md already; no invocation has started.
InitConc ==
    /\ config \in Configs
    /\ fs = (FileKey(Div(VaultPath, VaultNote)) :> [content |-> <<"z", NL>>, mtime |-> 1])
                @@ InitFiles
    /\ now = 1
    /\ nops = 0
    /\ last = [op |-> "init"]
    /\ hist = <<>>
    /\ run = [i \in Invocations |-> Idle]

NextConc == \E i \in Invocations : AppendRead(i) \/ AppendWrite(i)

SpecConc == InitConc /\ [][NextConc]_vars

----------------------------------------------------------------------------
\* cli.py: add

\* The --file options of add: none, a note of the vault, a note below the
\* regular file r, an absolute path whose text starts with the vault's.
AddFiles ==
    {None,
     Some(<<"x">> \o MdSuffix),
     Some(Attachment \o <<"/", "x">> \o MdSuffix),
     Some(<<"/", "v", "2", "/", "x">> \o MdSuffix)}

\* The error read_note_file or write_note_file raises for the target p: open()
\* of a directory, mkdir of a parent that is a regular file.
AppendError(files, p) ==
    LET k == FileKey(p)
    IN IF IsDir(files, p) THEN "IsADirectoryError"
       ELSE IF \E n \in 1..(Len(k) - 1) : SubSeq(k, 1, n) \in DOMAIN files
            THEN "FileExistsError"
            ELSE "none"

\* target_path.relative_to(config.vault_path) raises ValueError.
RelativeToRaises(p, base) ==
    ~(Len(base.parts) <= Len(p.parts)
        /\ SubSeq(p.parts, 1, Len(base.parts)) = base.parts)

\* add, line 86 skipped: the Config keeps the overridden flag.
AfterFinally_Kept(cfg, original_include_timestamp) == cfg

\* add, line 86: the finally clause restores the flag.
AfterFinally(cfg, original_include_timestamp) ==
    [cfg EXCEPT !.include_timestamp = original_include_timestamp]

\* No add command is running.
NoCommand ==
    [pc |-> "idle", before |-> [include_timestamp |-> TRUE], note |-> None,
     no_timestamp |-> FALSE, original_include_timestamp |-> TRUE,
     outcome |-> "none"]

\* add, lines 56-71: the Config is obtained, the Note built and the flag
\* overridden.
add_begin ==
    /\ run.pc = "idle"
    /\ nops < MaxOps
    /\ \E content \in Contents, file \in AddFiles, format_type \in FileFormats,
          tags \in TagLists, no_timestamp \in BOOLEAN, daily \in BOOLEAN :
          LET include_timestamp == config.include_timestamp /\ ~no_timestamp
              note == [content |-> content,
                       format_type |-> format_type,
                       tags |-> tags,
                       timestamp |-> Some(ClockAt(now)),
                       target_file |-> IF file = None THEN None
                                       ELSE Some(ParsePath(file[1])),
                       use_daily_note |-> daily /\ file = None]
          IN /\ run' = [pc |-> "try", before |-> config, note |-> Some(note),
                        no_timestamp |-> no_timestamp,
                        original_include_timestamp |-> config.include_timestamp,
                        outcome |-> "none"]
             /\ config' = [config EXCEPT !.include_timestamp = include_timestamp]
    /\ nops' = nops + 1
    /\ UNCHANGED <<fs, now, last, hist>>

\* add, lines 74-75: append_to_note returns or raises, and the path relative
\* to the vault is computed or raises.
add_append ==
    /\ run.pc = "try"
    /\ LET note == run.note[1]
           p == ResolveTarget(config, note, None, ClockAt(now))
           error == AppendError(fs, p)
       IN IF error # "none"
          THEN /\ last' = [op |-> "append_error", note |-> note, path |-> p,
                           error |-> error]
               /\ run' = [run EXCEPT !.pc = "finally", !.outcome = "append_raised"]
               /\ UNCHANGED <<fs, hist>>
          ELSE /\ AppendStep(note, None)
               /\ run' = [run EXCEPT !.pc = "finally",
                                     !.outcome =
                                         IF RelativeToRaises(p, config.vault_path)
                                         THEN "relative_to_raised"
                                         ELSE "returned"]
    /\ UNCHANGED <<config, now, nops>>

\* add, lines 85-86: the finally clause, run whether the try block returned
\* or raised.
add_finally ==
    /\ run.pc = "finally"
    /\ config' = AfterFinally(config, run.original_include_timestamp)
    /\ run' = [run EXCEPT !.pc = "idle"]
    /\ UNCHANGED <<fs, now, nops, last, hist>>

InitAdd ==
    /\ config \in Configs
    /\ fs = InitFiles
    /\ now = 1
    /\ nops = 0
    /\ last = [op |-> "init"]
    /\ hist = <<>>
    /\ run = NoCommand

NextAdd == add_begin \/ add_append \/ add_finally \/ Tick

SpecAdd == InitAdd /\ [][NextAdd]_vars

----------------------------------------------------------------------------
\* cli.py: create

\* The filename arguments of create: plain, with the suffix, with a
\* traversal, absolute.
CreateFilenames ==
    {<<"x">>, <<"x">> \o MdSuffix, <<".", ".", "/", "v", "2", "/", "x">>,
     <<"/", "e", "/", "x">>}

\* The --dir options of create: none, empty, a directory of the vault, a
\* traversal, an absolute path.
CreateSubdirectories ==
    {None, Some(<<>>), Some(<<"s">>), Some(<<".", ".", "/", "v", "2">>),
     Some(<<"/", "e">>)}

\* create(filename, content, subdirectory): the file is created, then the path
\* relative to the vault is computed or raises.
create ==
    /\ nops < MaxOps
    /\ \E filename \in CreateFilenames, content \in CreateContents,
          subdirectory \in CreateSubdirectories :
          /\ CreateStep(filename, content, subdirectory)
          /\ run' = << IF RelativeToRaises(CreateTarget(config, filename, subdirectory),
                                           config.vault_path)
                       THEN "relative_to_raised" ELSE "returned" >>
    /\ nops' = nops + 1
    /\ UNCHANGED <<config, now>>

NextCreate == create \/ Tick

SpecCreate == Init /\ [][NextCreate]_vars

----------------------------------------------------------------------------
\* Properties

\* p lies inside the vault root directory: the components of the vault root
\* are the first components of the file p names.
InsideVault(p) ==
    LET k == FileKey(p)
        v == FileKey(config.vault_path)
    IN Len(k) >= Len(v) /\ SubSeq(k, 1, Len(v)) = v

\* The daily note of the day of clock reading dt.
DailyKey(dt) == FileKey(get_daily_note_path(config, Some(dt), dt))

\* The content of the file path p names.
ContentAt(p) == fs[FileKey(p)].content

\* "#t1 #t2 ...", built tag by tag.
RECURSIVE RefTags(_)
RefTags(tags) ==
    IF tags = <<>> THEN <<>>
    ELSE IF Len(tags) = 1 THEN <<"#">> \o tags[1]
    ELSE <<"#">> \o tags[1] \o <<" ">> \o RefTags(Tail(tags))

\* The reference rendering of a note, given its timestamp_str ts.
RefRender(mode, ts, content, tags) ==
    LET tg == RefTags(tags)
        sp(a, b) == IF a = <<>> THEN b ELSE IF b = <<>> THEN a ELSE a \o <<" ">> \o b
        item == (IF ts # <<>> THEN ts \o <<" ", "-", " ">> ELSE <<>>) \o content
                    \o (IF tags # <<>> THEN <<" ">> \o tg ELSE <<>>)
    IN IF mode = "plain" THEN sp(ts, sp(content, tg))
       ELSE IF mode = "timestamp" THEN
            (IF ts = <<>> THEN content
             ELSE <<"*", "*">> \o ts \o <<"*", "*", " ", "-", " ">> \o content
                      \o (IF tags # <<>> THEN <<" ", "-", " ">> \o tg ELSE <<>>))
       ELSE IF mode = "bullet" THEN <<"-", " ">> \o item
       ELSE <<"-", " ", "[", " ", "]", " ">> \o item

\* C1: the path append_to_note writes to and returns lies inside the vault
\* root; when the chosen target would escape the vault, the file written is
\* the same-named file directly under the vault root.
C1_TargetInsideVault ==
    last.op = "append" =>
        LET chosen == ChooseTarget(config, last.note, last.target_path, ClockAt(last.at))
        IN /\ InsideVault(last.path)
           /\ ~InsideVault(chosen) =>
                  FileKey(last.path) = FileKey(config.vault_path) \o <<Name(chosen)>>

\* C2: whenever append_to_note resolves its target to the daily note file,
\* the note has a timestamp and the file is absent or empty, the content
\* written is "---\ndate: <Y-m-d of the timestamp>\n---\n\n", the fragment
\* and one newline.
C2_DailyFrontmatter ==
    (/\ last.op = "append"
     /\ last.note.timestamp # None
     /\ FileKey(last.path) = DailyKey(ClockAt(last.at))
     /\ last.pre = <<>>)
        => ContentAt(last.path) =
               <<"-", "-", "-", NL, "d", "a", "t", "e", ":", " ">>
                   \o Pad(last.note.timestamp[1].year, 4) \o <<"-">>
                   \o Pad(last.note.timestamp[1].month, 2) \o <<"-">>
                   \o Pad(last.note.timestamp[1].day, 2)
                   \o <<NL, "-", "-", "-", NL, NL>> \o last.frag \o <<NL>>

\* The keys of the daily note files.
IsDailyKey(k) == \E t \in 1..Len(Clock) : k = DailyKey(Clock[t])

\* The file with key k was absent or empty before its first write and every
\* write to it was an append.
FreshAppendOnly(k) ==
    /\ k \in DOMAIN hist
    /\ hist[k][1].pre = <<>>
    /\ \A i \in 1..Len(hist[k]) : hist[k][i].op = "append"

\* C3: after N appends to a fresh daily note file the file ends with the N
\* fragments in insertion order, consecutive fragments separated by a blank
\* line when append_newline is true and by a single newline when it is
\* false, and with a newline after the last.
C3_FragmentsInOrder ==
    \A k \in DOMAIN hist :
        (IsDailyKey(k) /\ FreshAppendOnly(k)) =>
            LET frags == [i \in 1..Len(hist[k]) |-> hist[k][i].frag]
                gap == IF config.append_newline THEN <<NL, NL>> ELSE <<NL>>
            IN EndsWith(fs[k].content, Join(gap, frags) \o <<NL>>)

C3_Witness ==
    \E k \in DOMAIN hist :
        /\ IsDailyKey(k) /\ FreshAppendOnly(k)
        /\ Len(hist[k]) >= 2
        /\ hist[k][1].frag # hist[k][2].frag

\* C4: an append to a file holding non-empty content E leaves exactly E, a
\* newline if append_newline, the fragment and a newline; and across any run
\* of appends to a file every earlier content of it is a prefix of the later.
C4_AppendKeepsPrior ==
    /\ (last.op = "append" /\ last.pre # <<>>) =>
           ContentAt(last.path) =
               Concat(<<last.pre, IF config.append_newline THEN <<NL>> ELSE <<>>,
                        last.frag, <<NL>>>>)
    /\ \A k \in DOMAIN hist :
           /\ fs[k].content = hist[k][Len(hist[k])].post
           /\ \A j \in 1..Len(hist[k]) :
                  hist[k][j].op = "append" =>
                      /\ StartsWith(hist[k][j].post, hist[k][j].pre)
                      /\ j > 1 => hist[k][j].pre = hist[k][j - 1].post
           /\ \A i, j \in 1..Len(hist[k]) :
                  (i < j /\ \A m \in (i + 1)..j : hist[k][m].op = "append")
                      => StartsWith(hist[k][j].post, hist[k][i].post)

C4_Witness ==
    /\ last.op = "append"
    /\ last.pre # <<>>
    /\ Len(hist[FileKey(last.path)]) >= 2
    /\ hist[FileKey(last.path)][1].pre = <<>>

\* C5: a request with an explicit target_file that resolves inside the vault
\* is written to vault_path / target_file whatever use_daily_note is, and
\* the daily note is the target only when there is no explicit target file.
C5_ExplicitTargetWins ==
    (last.op = "append" /\ last.note.target_file # None) =>
        /\ InsideVault(Div(config.vault_path, last.note.target_file[1])) =>
               last.path = Div(config.vault_path, last.note.target_file[1])
        /\ FileKey(last.path) # DailyKey(ClockAt(last.at))

\* C6: a request that targets the daily note and has timestamp T is written
\* to the daily note of T's date, get_daily_note_path(config, T).
C6_DailyNoteOfTimestamp ==
    (/\ last.op = "append"
     /\ last.note.use_daily_note \/ last.note.target_file = None
     /\ last.note.timestamp # None)
        => last.path = get_daily_note_path(config, last.note.timestamp, ClockAt(last.at))

\* C7: format_content returns the reference rendering for every content,
\* tag list, timestamp, include_timestamp flag and format mode.
C7_FormatIsReference ==
    last.op = "format" =>
        last.result =
            RefRender(last.note.format_type,
                      TimestampStr(last.note, last.include_timestamp,
                                   last.timestamp_format),
                      last.note.content, last.note.tags)

C7_Witness ==
    /\ last.op = "format"
    /\ last.note.format_type = "task"
    /\ Len(last.note.tags) = 2
    /\ last.include_timestamp /\ last.note.timestamp # None
    /\ last.timestamp_format # <<>>
    /\ last.result = <<"-", " ", "[", " ", "]", " ", "1", "4", ":", "3", "0", " ", "-",
                       " ", "a", " ", "b", " ", "#", "i", " ", "#", "w">>

\* C8: in every format mode and for every include_timestamp setting, a note
\* with tags is rendered with every tag as a "#tag" token, in list order,
\* joined by single spaces.
C8_TagsRendered ==
    (last.op = "format" /\ last.note.tags # <<>>) =>
        Contains(last.result, RefTags(last.note.tags))

\* C9: list_recent_notes returns at most limit entries (none for a limit of
\* 0 or less), each a path ending in ".md".
C9_AtMostLimit ==
    last.op = "list" =>
        /\ Len(last.result) <= (IF last.limit > 0 THEN last.limit ELSE 0)
        /\ \A i \in 1..Len(last.result) :
               EndsWith(last.result[i][Len(last.result[i])], MdSuffix)

\* C10: after create_note_file the file at vault_path / subdirectory /
\* filename, ".md" appended only to a filename without it, holds exactly the
\* "created:" frontmatter, the content and one newline, whatever it held.
C10_CreateOverwrites ==
    last.op = "create" =>
        LET name == IF Len(last.filename) >= 3
                       /\ SubSeq(last.filename, Len(last.filename) - 2,
                                 Len(last.filename)) = <<".", "m", "d">>
                    THEN last.filename ELSE last.filename \o <<".", "m", "d">>
            dir == IF last.subdirectory = None \/ last.subdirectory = Some(<<>>)
                   THEN <<>> ELSE <<last.subdirectory[1]>>
            dt == ClockAt(last.at)
        IN /\ FileKey(last.path) = config.vault_path.parts \o dir \o <<name>>
           /\ ContentAt(last.path) =
                  <<"-", "-", "-", NL, "c", "r", "e", "a", "t", "e", "d", ":", " ">>
                      \o Pad(dt.year, 4) \o <<"-">> \o Pad(dt.month, 2) \o <<"-">>
                      \o Pad(dt.day, 2) \o <<"T">> \o Pad(dt.hour, 2) \o <<":">>
                      \o Pad(dt.minute, 2) \o <<NL, "-", "-", "-", NL, NL>>
                      \o last.content \o <<NL>>

C10_Witness ==
    /\ last.op = "create"
    /\ last.pre # <<>>
    /\ Len(hist[FileKey(last.path)]) = 2
    /\ hist[FileKey(last.path)][1].op = "append"
    /\ last.filename = <<"x">>

\* C11: constructing a Config fails, and yields no Config, whenever
\* vault_path does not exist or is not a directory; when it succeeds,
\* vault_path is the resolved path of an existing directory.
C11_ConfigValidation ==
    last.op = "construct" =>
        LET isdir == \E f \in DOMAIN fs :
                        /\ Len(f) > Len(Normalize(<<>>, last.vault_path.parts))
                        /\ SubSeq(f, 1, Len(Normalize(<<>>, last.vault_path.parts)))
                               = Normalize(<<>>, last.vault_path.parts)
        IN /\ ~isdir => (~last.result.ok /\ last.result.value = None)
           /\ last.result.ok =>
                  /\ last.result.value[1].vault_path
                         = Path(TRUE, Normalize(<<>>, last.vault_path.parts))
                  /\ isdir

C11_Witness ==
    /\ last.op = "construct"
    /\ last.vault_path = Path(TRUE, << <<"v">>, Attachment >>)
    /\ ~last.result.ok
    /\ last.result.error = "Vault path is not a directory"

\* C12: for every valid Config and every path with suffix .yaml, .yml or
\* .json, save_config(config, path) followed by load_config(path) returns a
\* Config equal to the saved one in every field.
C12_SaveLoadRoundTrip ==
    (/\ last.op = "load"
     /\ last.path # None
     /\ FileKey(last.path[1]) \in DOMAIN run)
        => /\ last.result.ok
           /\ last.result.value = Some(run[FileKey(last.path[1])])

\* The round trip of C12 through the YAML suffixes alone.
YamlRoundTrip ==
    (/\ last.op = "load"
     /\ last.path # None
     /\ FileKey(last.path[1]) \in DOMAIN run
     /\ Suffix(last.path[1]) # JsonSuffix)
        => /\ last.result.ok
           /\ last.result.value = Some(run[FileKey(last.path[1])])

\* A configuration written in JSON loads.
JsonLoads ==
    (last.op = "load" /\ last.path = Some(JsonConfigPath)) =>
        /\ last.result.ok
        /\ last.result.value[1].vault_path = VaultPath
        /\ ~last.result.value[1].append_newline
        /\ last.result.value[1].include_timestamp

\* C15: for every filename and every subdirectory argument, absolute paths
\* and values containing '..' included, the path create_note_file writes to
\* and returns lies inside the vault root directory.
C15_CreateInsideVault ==
    last.op = "create" => InsideVault(last.path)

\* C16: after a successful config init or config set-vault the persisted
\* configuration names a vault path that is an existing directory, and
\* load_config succeeds.
C16_PersistedVaultIsDir ==
    (last.op \in {"config_init", "config_set_vault"} /\ last.status = "saved") =>
        /\ load_config(fs, None).ok
        /\ load_config(fs, None).value # None
        /\ IsDir(fs, load_config(fs, None).value[1].vault_path)


\* The fragment invocation i appends.
FragmentOf(i) ==
    format_content(run[i].note[1], config.include_timestamp, config.timestamp_format)

\* Invocations i and j ran against the same file, both read it before either
\* wrote it, and j wrote it last.
BothReadThenWrote(i, j) ==
    /\ i # j
    /\ run[i].pc = "done" /\ run[j].pc = "done"
    /\ FileKey(run[i].path[1]) = FileKey(run[j].path[1])
    /\ run[i].read_at < run[i].written_at /\ run[i].read_at < run[j].written_at
    /\ run[j].read_at < run[i].written_at /\ run[j].read_at < run[j].written_at
    /\ run[i].written_at < run[j].written_at

\* C13: append_to_note reads and writes its target in two steps without a
\* lock; when two invocations run against the same file and both read it
\* before either writes it, the file ends as the content both read followed
\* by the last writer's fragment only, and the other's fragment is lost.
C13_LostUpdate ==
    \A i, j \in Invocations :
        BothReadThenWrote(i, j) =>
            /\ run[i].existing_content = run[j].existing_content
            /\ ContentAt(run[j].path[1]) =
                   BuildContent(config, run[j].note[1], run[j].existing_content,
                                FragmentOf(j))
            /\ ~Contains(ContentAt(run[j].path[1]), FragmentOf(i))

C13_Witness ==
    /\ BothReadThenWrote("first", "second")
    /\ run["second"].existing_content = <<"z", NL>>
    /\ Contains(ContentAt(run["second"].path[1]), FragmentOf("second"))
    /\ ~Contains(ContentAt(run["second"].path[1]), FragmentOf("first"))


\* The Config of the running add command with the flag the command asks for.
Overridden ==
    [run.before EXCEPT
        !.include_timestamp = run.before.include_timestamp /\ ~run.no_timestamp]

\* C14: add runs append_to_note with config.include_timestamp set to the
\* original value and not --no-timestamp; when the command ends, whether
\* append_to_note returned or raised, the flag holds its original value
\* again; and add changes no other field of the configuration.
C14_AddRestoresConfig ==
    /\ run.pc \in {"try", "finally"} => config = Overridden
    /\ (run.pc = "finally" /\ run.outcome # "append_raised") =>
           /\ last.op = "append"
           /\ last.frag = format_content(run.note[1], Overridden.include_timestamp,
                                         run.before.timestamp_format)
    /\ (run.pc = "idle" /\ run.outcome # "none") => config = run.before

C14_Witness ==
    /\ run.pc = "idle"
    /\ run.outcome = "append_raised"
    /\ run.no_timestamp
    /\ run.before.include_timestamp
    /\ config.include_timestamp

====
